---- MODULE Spec2Model ----
(***************************************************************************)
(* Threshold Schnorr signing (sig1 / sig2 / sig3_with_pk / combine /       *)
(* verify), its NIZK, and the tracing channel, as state machines.          *)
(*                                                                         *)
(* The prime-order group is scaled down: scalars are the integers mod L,   *)
(* a point is represented by its discrete logarithm to the basepoint g     *)
(* (so g = 1 and the identity = 0), and a "32-byte" string is one WBits-   *)
(* bit word.                                                               *)
(***************************************************************************)
EXTENDS Integers, Sequences, FiniteSets, TLC

\* ------------------------------------------------------------------ bounds

\* Largest number of signers n a session is set up with.
MaxN == 3
\* How many sig3_with_pk calls a caller makes with one SignerState at most.
\* How many of the arguments of an off-protocol sig3_with_pk call differ
\* from the ones the protocol prescribes, at most.
MaxDeviations == 2

\* ------------------------------------------------------- group primitives

\* Order of the scalar field / of the group (a small prime here).
L == 7
\* Width of an encoded scalar or point, in bits.
WBits == 4

\* Option<T>: None is the empty tuple, Some(v) the tuple of v.
None == <<>>
Some(v) == <<v>>
Unwrap(o) == o[1]

Scalars == 0 .. (L - 1)
Points == 0 .. (L - 1)
Words == 0 .. (2 ^ WBits - 1)

\* RistrettoPoint::identity() and RistrettoPoint::default().
Identity == 0
\* RISTRETTO_BASEPOINT_POINT.
Basepoint == 1

SAdd(a, b) == (a + b) % L
SSub(a, b) == (a - b) % L
SMul(a, b) == (a * b) % L
PAdd(p, q) == (p + q) % L
PSub(p, q) == (p - q) % L
PMul(p, k) == (p * k) % L

RECURSIVE SPow(_, _)
SPow(x, k) == IF k = 0 THEN 1 % L ELSE SMul(x, SPow(x, k - 1))

\* Scalar::invert: x^(l-2); the inverse of zero is zero.
ScalarInvert(x) == SPow(x, L - 2)

\* Scalar::from(i as u64).
ScalarFromU64(i) == i % L

\* Scalar::to_bytes: the canonical little-endian value.
enc_scalar(s) == s

\* from_bytes_mod_order with the top bit of the encoding cleared first.
dec_scalar_masked(b) == (b % (2 ^ (WBits - 1))) % L

\* Scalar::from_bytes_mod_order: any word, reduced mod l.
dec_scalar(b) == b % L

\* compress().to_bytes(): the canonical encoding is a non-negative (even)
\* field element.
enc_point(p) == 2 * p
\* CompressedRistretto::decompress: None unless the encoding is canonical.
dec_point(b) == IF b % 2 = 0 /\ b \div 2 < L THEN Some(b \div 2) ELSE None

\* One bit of a word flipped.
Bit(w, k) == (w \div (2 ^ k)) % 2
FlipBit(w, k) == IF Bit(w, k) = 1 THEN w - 2 ^ k ELSE w + 2 ^ k

\* ------------------------------------------------------------ hash oracles

\* Domain-separation tags, one word each.
TagHcom == 1
TagF0 == 2
TagF1 == 3
TagG0 == 4
TagG1 == 5
TagHsig == 6
TagHFS == 7
TagGen == 8
GenTagH == 9
GenTagV == 10

\* The compression step of the wide hash, a fixed mixing function.
HashModulus == 1021
HashMultiplier == 37

RECURSIVE Absorb(_, _)
Absorb(acc, data) ==
    IF data = <<>> THEN acc
    ELSE LET x == Head(data) % HashModulus
         IN  Absorb(((acc + x + 1) * (acc + HashMultiplier * x + 3)) % HashModulus,
                    Tail(data))

\* SHA-512 over domain || data.
hash_64(domain, data) == Absorb(Absorb(0, <<domain>>), data)

\* randutil::hash_to_scalar: from_bytes_mod_order_wide.
uhash_to_scalar(wide) == wide % L
\* randutil::hash_to_point: from_uniform_bytes (onto the group).
uhash_to_point(wide) == wide % L

hash_to_point(domain, data) == uhash_to_point(hash_64(domain, data))
hash_to_scalar(domain, data) == uhash_to_scalar(hash_64(domain, data))

\* The first 32 bytes of the digest, taken as collision-free: an injective
\* numbering of the hashed words (each below 2^WBits).
RECURSIVE Pack(_, _)
Pack(acc, data) ==
    IF data = <<>> THEN acc
    ELSE Pack(acc * (2 ^ WBits + 1) + Head(data) + 1, Tail(data))

hash_32(domain, data) == Pack(Pack(0, <<domain>>), data)

\* u32::to_le_bytes.
id_le(i) == <<i>>

hcom(i, rho, b) == hash_32(TagHcom, id_le(i) \o <<rho>> \o <<enc_point(b)>>)

f0(rho) == hash_to_point(TagF0, <<rho>>)
f1(rho) == hash_to_point(TagF1, <<rho>>)

\* message || (id || mu)* in the order of mu_vec.
RECURSIVE MuBytes(_)
MuBytes(mu_vec) ==
    IF mu_vec = <<>> THEN <<>>
    ELSE id_le(Head(mu_vec)[1]) \o <<Head(mu_vec)[2]>> \o MuBytes(Tail(mu_vec))

g0(message, mu_vec) == hash_to_point(TagG0, message \o MuBytes(mu_vec))
g1(message, mu_vec) == hash_to_point(TagG1, message \o MuBytes(mu_vec))

hsig(a_hat, pk, message) ==
    hash_to_scalar(TagHsig, <<enc_point(a_hat), enc_point(pk)>> \o message)

hfs(xa, xb, xpk, a, b, pk, g0p, g1p, rho) ==
    hash_to_scalar(TagHFS,
        <<enc_point(xa), enc_point(xb), enc_point(xpk), enc_point(a),
          enc_point(b), enc_point(pk), enc_point(g0p), enc_point(g1p), rho>>)

derive_generator(tag) == hash_to_point(TagGen, <<tag>>)

\* ------------------------------------------------------------------ shamir

\* Poly::eval.
RECURSIVE PolyEvalFrom(_, _, _, _)
PolyEvalFrom(coeffs, x, pow, acc) ==
    IF coeffs = <<>> THEN acc
    ELSE PolyEvalFrom(Tail(coeffs), x, SMul(pow, x), SAdd(acc, SMul(Head(coeffs), pow)))

PolyEval(coeffs, x) == PolyEvalFrom(coeffs, x, 1, 0)

\* sample_poly_with_constant: c0 then t random coefficients.
sample_poly_with_constant(t, c0, rnd) == <<c0>> \o SubSeq(rnd, 1, t)

\* The loop of lagrange_coeff: (num, den) after the ids of ss.
RECURSIVE LagrangeLoop(_, _, _, _)
LagrangeLoop(i, ss, num, den) ==
    IF ss = <<>> THEN <<num, den>>
    ELSE IF Head(ss) = i THEN LagrangeLoop(i, Tail(ss), num, den)
    ELSE LagrangeLoop(i, Tail(ss),
                      SMul(num, ScalarFromU64(Head(ss))),
                      SMul(den, SSub(ScalarFromU64(Head(ss)), ScalarFromU64(i))))

\* lagrange_coeff with the denominator multiplied in, not inverted.
lagrange_coeff_uninverted(i, ss) ==
    LET nd == LagrangeLoop(i, ss, 1, 1)
    IN  SMul(nd[1], nd[2])

lagrange_coeff(i, ss) ==
    LET nd == LagrangeLoop(i, ss, 1, 1)
    IN  SMul(nd[1], ScalarInvert(nd[2]))

\* ------------------------------------------------------------------ keygen

setup(n, t) ==
    [n |-> n, t |-> t, g |-> Basepoint,
     h |-> derive_generator(GenTagH), v |-> derive_generator(GenTagV)]

\* kgen, drawing its 3t+1 random scalars from tape in order.
kgen(par, tape) ==
    LET t == par.t
        s_poly == sample_poly_with_constant(t, tape[1], SubSeq(tape, 2, t + 1))
        r_poly == sample_poly_with_constant(t, 0, SubSeq(tape, t + 2, 2 * t + 1))
        u_poly == sample_poly_with_constant(t, 0, SubSeq(tape, 2 * t + 2, 3 * t + 1))
        sk(i) == [s |-> PolyEval(s_poly, ScalarFromU64(i)),
                  r |-> PolyEval(r_poly, ScalarFromU64(i)),
                  u |-> PolyEval(u_poly, ScalarFromU64(i))]
    IN  [pk  |-> PMul(par.g, tape[1]),
         pks |-> [i \in 1 .. par.n |->
                    PAdd(PAdd(PMul(par.g, sk(i).s), PMul(par.h, sk(i).r)),
                         PMul(par.v, sk(i).u))],
         sks |-> [i \in 1 .. par.n |-> sk(i)]]

\* -------------------------------------------------------------------- nizk

\* SigProve; hats = the four scalars it samples, in order.
sig_prove(par, pk_i, a_i_point, b_i, g0p, g1p, rho, a, sk, hats) ==
    LET h0 == f0(rho)
        h1 == f1(rho)
        a_hat == hats[1]
        s_hat == hats[2]
        r_hat == hats[3]
        u_hat == hats[4]
        xa == PAdd(PAdd(PMul(par.g, a_hat), PMul(g0p, r_hat)), PMul(g1p, u_hat))
        xb == PAdd(PAdd(PMul(par.g, a_hat), PMul(h0, r_hat)), PMul(h1, u_hat))
        xpk == PAdd(PAdd(PMul(par.g, s_hat), PMul(par.h, r_hat)), PMul(par.v, u_hat))
        e == hfs(xa, xb, xpk, a_i_point, b_i, pk_i, g0p, g1p, rho)
    IN  [xa |-> enc_point(xa), xb |-> enc_point(xb), xpk |-> enc_point(xpk),
         za |-> enc_scalar(SAdd(a_hat, SMul(a, e))),
         zs |-> enc_scalar(SAdd(s_hat, SMul(sk.s, e))),
         zr |-> enc_scalar(SAdd(r_hat, SMul(sk.r, e))),
         zu |-> enc_scalar(SAdd(u_hat, SMul(sk.u, e)))]

\* The three equations of SigVer for a challenge e (false when an
\* announcement does not decode).
sig_check(par, pk_i, a_i_point, b_i, g0p, g1p, rho, proof, e) ==
    LET xa == dec_point(proof.xa)
        xb == dec_point(proof.xb)
        xpk == dec_point(proof.xpk)
        za == dec_scalar(proof.za)
        zs == dec_scalar(proof.zs)
        zr == dec_scalar(proof.zr)
        zu == dec_scalar(proof.zu)
        h0 == f0(rho)
        h1 == f1(rho)
    IN  /\ xa # None
        /\ xb # None
        /\ xpk # None
        /\ PAdd(PAdd(PMul(par.g, za), PMul(g0p, zr)), PMul(g1p, zu))
             = PAdd(Unwrap(xa), PMul(a_i_point, e))
        /\ PAdd(PAdd(PMul(par.g, za), PMul(h0, zr)), PMul(h1, zu))
             = PAdd(Unwrap(xb), PMul(b_i, e))
        /\ PAdd(PAdd(PMul(par.g, zs), PMul(par.h, zr)), PMul(par.v, zu))
             = PAdd(Unwrap(xpk), PMul(pk_i, e))

\* SigVer: decode, recompute the challenge, check.
sig_verify(par, pk_i, a_i_point, b_i, g0p, g1p, rho, proof) ==
    LET xa == dec_point(proof.xa)
        xb == dec_point(proof.xb)
        xpk == dec_point(proof.xpk)
    IN  IF xa = None \/ xb = None \/ xpk = None THEN FALSE
        ELSE sig_check(par, pk_i, a_i_point, b_i, g0p, g1p, rho, proof,
                       hfs(Unwrap(xa), Unwrap(xb), Unwrap(xpk), a_i_point, b_i,
                           pk_i, g0p, g1p, rho))

\* ---------------------------------------------------------------- protocol

\* Vec::sort_by_key on the id (stable): insertion after the equal keys.
RECURSIVE InsertSorted(_, _)
InsertSorted(e, sorted) ==
    IF sorted = <<>> THEN <<e>>
    ELSE IF e[1] < Head(sorted)[1] THEN <<e>> \o sorted
    ELSE <<Head(sorted)>> \o InsertSorted(e, Tail(sorted))

RECURSIVE SortFrom(_, _)
SortFrom(mu, sorted) ==
    IF mu = <<>> THEN sorted
    ELSE SortFrom(Tail(mu), InsertSorted(Head(mu), sorted))

normalize_mu_vec(mu) == SortFrom(mu, <<>>)

\* iter().find(|(id, _)| *id == j).map(|x| x.1)
RECURSIVE FindById(_, _)
FindById(pairs, j) ==
    IF pairs = <<>> THEN None
    ELSE IF Head(pairs)[1] = j THEN Some(Head(pairs)[2])
    ELSE FindById(Tail(pairs), j)

sig1(par, i, sk_i, a_i, rho_i) ==
    LET h0 == f0(rho_i)
        h1 == f1(rho_i)
        b_i == PAdd(PAdd(PMul(par.g, a_i), PMul(h0, sk_i.r)), PMul(h1, sk_i.u))
    IN  [cm |-> [i |-> i, mu_i |-> hcom(i, rho_i, b_i)],
         st |-> [i |-> i, a_i |-> a_i, rho_i |-> rho_i, b_i |-> b_i,
                 a_i_point |-> Identity, mu_vec |-> <<>>,
                 g0 |-> Identity, g1 |-> Identity]]

\* The a_i field of the OpeningMessage sig2 builds.
OpeningNonceField(st) == enc_scalar(st.a_i)

sig2(par, message, i, mu_vec_in, pk_i, sk_i, st, hats) ==
    LET mu_vec == normalize_mu_vec(mu_vec_in)
        g0p == g0(message, mu_vec)
        g1p == g1(message, mu_vec)
        a_i_point == PAdd(PAdd(PMul(par.g, st.a_i), PMul(g0p, sk_i.r)),
                          PMul(g1p, sk_i.u))
        proof == sig_prove(par, pk_i, a_i_point, st.b_i, g0p, g1p, st.rho_i,
                           st.a_i, sk_i, hats)
    IN  [msg |-> [i |-> i, a_i |-> OpeningNonceField(st),
                  a_point |-> enc_point(a_i_point), rho_i |-> st.rho_i,
                  b_point |-> enc_point(st.b_i), proof |-> proof],
         st |-> [i |-> i, a_i |-> st.a_i, rho_i |-> st.rho_i, b_i |-> st.b_i,
                 a_i_point |-> a_i_point, mu_vec |-> mu_vec,
                 g0 |-> g0p, g1 |-> g1p]]

\* The loop body without its commitment lookup and comparison.
OpeningOK_unbound(par, mu_vec, pk_shares, g0p, g1p, om) ==
    LET bj == dec_point(om.b_point)
        aj == dec_point(om.a_point)
        pkj == FindById(pk_shares, om.i)
    IN  /\ bj # None
        /\ aj # None
        /\ pkj # None
        /\ sig_verify(par, Unwrap(pkj), Unwrap(aj), Unwrap(bj), g0p, g1p,
                      om.rho_i, om.proof)

\* One pass of the "verify each opening" loop of sig3_with_pk: TRUE when
\* the opening passes all of its early returns.
OpeningOK(par, mu_vec, pk_shares, g0p, g1p, om) ==
    LET bj == dec_point(om.b_point)
        muj == FindById(mu_vec, om.i)
        aj == dec_point(om.a_point)
        pkj == FindById(pk_shares, om.i)
    IN  /\ bj # None
        /\ muj # None
        /\ Unwrap(muj) = hcom(om.i, om.rho_i, Unwrap(bj))
        /\ aj # None
        /\ pkj # None
        /\ sig_verify(par, Unwrap(pkj), Unwrap(aj), Unwrap(bj), g0p, g1p,
                      om.rho_i, om.proof)

\* The index of the opening at which the loop returns None; 0 when it
\* runs to its end.
RECURSIVE FirstRejected(_, _, _, _, _, _, _)
FirstRejected(par, mu_vec, pk_shares, g0p, g1p, openings, k) ==
    IF k > Len(openings) THEN 0
    ELSE IF ~OpeningOK(par, mu_vec, pk_shares, g0p, g1p, openings[k]) THEN k
    ELSE FirstRejected(par, mu_vec, pk_shares, g0p, g1p, openings, k + 1)

\* A_hat = sum of L_{j,SS} * A_j over the openings, in their order; None
\* when an A_j does not decode.
RECURSIVE AHat(_, _, _)
AHat(openings, ss, acc) ==
    IF openings = <<>> THEN Some(acc)
    ELSE LET aj == dec_point(Head(openings).a_point)
         IN  IF aj = None THEN None
             ELSE AHat(Tail(openings), ss,
                       PAdd(acc, PMul(Unwrap(aj),
                                      lagrange_coeff(Head(openings).i, ss))))

sig3_with_pk(par, message, ss, i, pk_joint, pk_shares, sk_i, st, commitments, openings) ==
    LET mu_vec == normalize_mu_vec(commitments)
        g0p == g0(message, mu_vec)
        g1p == g1(message, mu_vec)
    IN  IF FirstRejected(par, mu_vec, pk_shares, g0p, g1p, openings, 1) # 0 THEN None
        ELSE LET a_hat == AHat(openings, ss, Identity)
             IN  IF a_hat = None THEN None
                 ELSE LET c == hsig(Unwrap(a_hat), pk_joint, message)
                          li == lagrange_coeff(i, ss)
                          z_i == SMul(li, SAdd(st.a_i, SMul(c, sk_i.s)))
                      IN  Some([i |-> i, z_i |-> enc_scalar(z_i)])

RECURSIVE SumShares(_, _)
SumShares(sigshares, acc) ==
    IF sigshares = <<>> THEN acc
    ELSE SumShares(Tail(sigshares), SAdd(acc, dec_scalar(Head(sigshares).z_i)))

combine(ss, openings, sigshares) ==
    LET a_hat == AHat(openings, ss, Identity)
    IN  IF a_hat = None THEN None
        ELSE Some([A_hat |-> Unwrap(a_hat), z |-> SumShares(sigshares, 0)])

verify(par, pk_joint, message, sig) ==
    LET c == hsig(sig.A_hat, pk_joint, message)
    IN  PMul(par.g, sig.z) = PAdd(sig.A_hat, PMul(pk_joint, c))

\* ------------------------------------------------- the signing session

VARIABLES
    par,        \* Params of setup(n, t)
    keys,       \* kgen's (pk, pks, sks)
    ss,         \* the signing set of the session, ids ascending
    st1,        \* st1[i]: the SignerState sig1 returned to signer i
    st2,        \* st2[i][m]: the SignerState sig2 returned for message m
    commits,    \* the (id, mu) pairs published in round 1
    opens,      \* opens[m]: the OpeningMessages published for message m
    issued,     \* issued[i][m]: what sig3_with_pk returned to signer i for m
    sigma,      \* sigma[m]: what combine returned for m
    verified,   \* verified[m]: what verify returned for sigma[m]
    last3,      \* the last off-protocol sig3_with_pk call: arguments, result
    lastC,      \* the last off-protocol combine call: arguments, result
    nz,         \* a NIZK statement, its proof, and a verification of it
    tr,         \* the tracing channel: admitter key, token, ciphertext, output
    vc,         \* the commitment layer: commitments, openings, aggregates
    td,         \* the timed channel: parameters, ciphertext, output
    fc          \* one call of a helper function: arguments, result

sessVars == <<par, keys, ss, st1, st2, commits, opens, issued, sigma, verified>>
callVars == <<last3, lastC>>
pureVars == <<nz, tr, vc, td, fc>>
vars == <<sessVars, callVars, pureVars>>

\* Largest word a one-word message is drawn from.
MaxMsg == 1
\* How many random tapes kgen is run on.
NumKeyTapes == 2

Msgs == {<<w>> : w \in 0 .. MaxMsg}
Msg0 == <<0>>

\* The (a_i, rho_i) pairs sig1 draws.
NonceDraws == {<<2, 1>>, <<5, 3>>}
\* The 32-byte strings an opening's rho may be replaced by.
Rhos == {1, 2, 3}
\* The four scalars sig_prove draws during a session.
SessionHats == {<<3, 1, 4, 5>>}

\* The k-th tape of 3t+1 random scalars kgen consumes.
KeyTape(k) == [j \in 1 .. (3 * MaxN + 1) |-> (k * j * j + 3 * j + k) % L]

Configs == {c \in (2 .. MaxN) \X (1 .. MaxN) : c[2] < c[1]}

\* The sequences that list each element of S once.
Perms(S) ==
    {f \in [1 .. Cardinality(S) -> S] : \A x \in S : \E k \in DOMAIN f : f[k] = x}

Range(f) == {f[k] : k \in DOMAIN f}

\* The ids of S in ascending order.
RECURSIVE Ascending(_)
Ascending(S) ==
    IF S = {} THEN <<>>
    ELSE LET lo == CHOOSE x \in S : \A y \in S : x <= y
         IN  <<lo>> \o Ascending(S \ {lo})

\* The records of S (each with an id i, all different) by ascending id.
ById(S) == [k \in 1 .. Cardinality(S) |->
              CHOOSE x \in S : Cardinality({y \in S : y.i < x.i}) = k - 1]

\* The pk_map main builds: (i, pk_i) for i in 1..n.
PkMap == [i \in 1 .. par.n |-> <<i, keys.pks[i]>>]

InitSession ==
    \E c \in Configs, k \in 1 .. NumKeyTapes :
        \E S \in {T \in SUBSET (1 .. c[1]) : Cardinality(T) = c[2] + 1} :
            /\ par = setup(c[1], c[2])
            /\ keys = kgen(setup(c[1], c[2]), KeyTape(k))
            /\ ss = Ascending(S)
            /\ st1 = [i \in 1 .. c[1] |-> None]
            /\ st2 = [i \in 1 .. c[1] |-> [m \in Msgs |-> None]]
            /\ commits = {}
            /\ opens = [m \in Msgs |-> {}]
            /\ issued = [i \in 1 .. c[1] |-> [m \in Msgs |-> None]]
            /\ sigma = [m \in Msgs |-> None]
            /\ verified = [m \in Msgs |-> None]

\* Round 1: signer i of the signing set publishes its commitment.
Sig1(i) ==
    /\ i \in Range(ss)
    /\ st1[i] = None
    /\ \E d \in NonceDraws :
         LET r == sig1(par, i, keys.sks[i], d[1], d[2])
         IN  /\ st1' = [st1 EXCEPT ![i] = Some(r.st)]
             /\ commits' = commits \cup {<<r.cm.i, r.cm.mu_i>>}
    /\ UNCHANGED <<par, keys, ss, st2, opens, issued, sigma, verified, callVars, pureVars>>

\* Round 2: signer i opens for message m, once all commitments are in.
\* The SignerState of round 1 is borrowed, and stays with the caller.
Sig2(i, m) ==
    /\ st1[i] # None
    /\ st2[i][m] = None
    /\ \A j \in Range(ss) : st1[j] # None
    /\ \E mu_vec \in Perms(commits), hats \in SessionHats :
         LET r == sig2(par, m, i, mu_vec, keys.pks[i], keys.sks[i], Unwrap(st1[i]), hats)
         IN  /\ st2' = [st2 EXCEPT ![i][m] = Some(r.st)]
             /\ opens' = [opens EXCEPT ![m] = @ \cup {r.msg}]
    /\ UNCHANGED <<par, keys, ss, st1, commits, issued, sigma, verified, callVars, pureVars>>

\* Round 3: signer i signs m, once all openings for m are in.  The
\* SignerState is borrowed: nothing of it is consumed or erased.
Sig3(i, m) ==
    /\ st2[i][m] # None
    /\ issued[i][m] = None
    /\ \A j \in Range(ss) : st2[j][m] # None
    /\ \E cs \in Perms(commits) :
         issued' = [issued EXCEPT ![i][m] =
                      Some(sig3_with_pk(par, m, ss, i, keys.pk, PkMap, keys.sks[i],
                                        Unwrap(st2[i][m]), cs, ById(opens[m])))]
    /\ UNCHANGED <<par, keys, ss, st1, st2, commits, opens, sigma, verified, callVars, pureVars>>

\* The partial signatures issued for m.
SharesFor(m) ==
    {Unwrap(Unwrap(issued[i][m])) : i \in {j \in Range(ss) : issued[j][m] # None}}

Combine(m) ==
    /\ sigma[m] = None
    /\ \A j \in Range(ss) : issued[j][m] # None /\ Unwrap(issued[j][m]) # None
    /\ \E os \in Perms(opens[m]) :
         sigma' = [sigma EXCEPT ![m] = Some(combine(ss, os, ById(SharesFor(m))))]
    /\ UNCHANGED <<par, keys, ss, st1, st2, commits, opens, issued, verified, callVars, pureVars>>

Verify(m) ==
    /\ sigma[m] # None
    /\ Unwrap(sigma[m]) # None
    /\ verified[m] = None
    /\ verified' = [verified EXCEPT ![m] =
                      Some(verify(par, keys.pk, m, Unwrap(Unwrap(sigma[m]))))]
    /\ UNCHANGED <<par, keys, ss, st1, st2, commits, opens, issued, sigma, callVars, pureVars>>

\* ------------------------------------------------- off-protocol API calls

\* The commitments and the openings for Msg0 as the protocol passes them.
Commitments0 == normalize_mu_vec(CHOOSE f \in Perms(commits) : TRUE)
Openings0 == ById(opens[Msg0])

DropAt(seq, k) == SubSeq(seq, 1, k - 1) \o SubSeq(seq, k + 1, Len(seq))

\* The ascending sequences of the non-empty sets of signer ids.
SignerSeqs == {Ascending(S) : S \in (SUBSET (1 .. par.n)) \ {{}}}

\* An opening changed in one field: another rho, one bit of B's or of A's
\* encoding (bit 0 leaves no valid encoding), one bit of the proof.
TamperedOpenings(om) ==
    {[om EXCEPT !.rho_i = r] : r \in {x \in Rhos : x = 1 + (om.rho_i % 3)}}
    \cup {[om EXCEPT !.b_point = FlipBit(om.b_point, k)] : k \in 0 .. 1}
    \cup {[om EXCEPT !.a_point = FlipBit(om.a_point, k)] : k \in 0 .. 1}
    \cup {[om EXCEPT !.proof.za = FlipBit(om.proof.za, 0)]}

\* A commitment vector with one entry missing, or with one entry replaced
\* by the commitment to another rho.
CommitmentVariants(cs) ==
    {cs}
    \cup {DropAt(cs, k) : k \in DOMAIN cs}
    \cup {[cs EXCEPT ![k] = <<cs[k][1],
                                hcom(cs[k][1], 1 + (Unwrap(st1[cs[k][1]]).rho_i % 3),
                                     Unwrap(st1[cs[k][1]]).b_i)>>] : k \in DOMAIN cs}

\* An openings list with one opening missing, doubled or tampered with,
\* or with none at all.
OpeningVariants(os) ==
    {os, <<>>}
    \cup {DropAt(os, k) : k \in DOMAIN os}
    \cup {Append(os, os[k]) : k \in DOMAIN os}
    \cup UNION {{[os EXCEPT ![k] = om] : om \in TamperedOpenings(os[k])} : k \in DOMAIN os}

Deviations(m, sv, cs, os) ==
    (IF m = Msg0 THEN 0 ELSE 1) + (IF sv = ss THEN 0 ELSE 1)
    + (IF cs = Commitments0 THEN 0 ELSE 1) + (IF os = Openings0 THEN 0 ELSE 1)

\* sig3_with_pk called by signer i, who holds a round-2 state it has not
\* signed with yet, with arguments of the caller's choosing.
Sig3Call(i) ==
    /\ last3 = None /\ lastC = None
    /\ st2[i][Msg0] # None
    /\ issued[i][Msg0] = None
    /\ \A j \in Range(ss) : st2[j][Msg0] # None
    /\ \E m \in Msgs, sv \in SignerSeqs :
         \E cs \in CommitmentVariants(Commitments0), os \in OpeningVariants(Openings0) :
            /\ Deviations(m, sv, cs, os) <= MaxDeviations
            /\ last3' = Some([i |-> i, message |-> m, ss |-> sv,
                              commitments |-> cs, openings |-> os,
                              ret |-> sig3_with_pk(par, m, sv, i, keys.pk, PkMap,
                                                   keys.sks[i], Unwrap(st2[i][Msg0]),
                                                   cs, os)])
    /\ UNCHANGED <<sessVars, lastC, pureVars>>

\* combine called on the issued shares with a signing set and an openings
\* list of the caller's choosing.
CombineCall ==
    /\ last3 = None /\ lastC = None
    /\ \A j \in Range(ss) : issued[j][Msg0] # None /\ Unwrap(issued[j][Msg0]) # None
    /\ \E sv \in SignerSeqs, os \in OpeningVariants(Openings0) :
         lastC' = Some([ss |-> sv, openings |-> os,
                        sigshares |-> ById(SharesFor(Msg0)),
                        ret |-> combine(sv, os, ById(SharesFor(Msg0)))])
    /\ UNCHANGED <<sessVars, last3, pureVars>>

\* ---------------------------------------------------------- specifications

NoCalls == last3 = None /\ lastC = None
NoPure == nz = None /\ tr = None /\ vc = None /\ td = None /\ fc = None

Init == InitSession /\ NoCalls /\ NoPure

Round1 == \E i \in 1 .. par.n : Sig1(i)
Round2 == \E i \in 1 .. par.n, m \in Msgs : Sig2(i, m)
Round3 == \E i \in 1 .. par.n, m \in Msgs : Sig3(i, m)
Combining == \E m \in Msgs : Combine(m)
Verifying == \E m \in Msgs : Verify(m)

Next == Round1 \/ Round2 \/ Round3 \/ Combining \/ Verifying

Spec == Init /\ [][Next]_vars

\* The session for one message, ended by one call of sig3_with_pk or of
\* combine whose arguments the caller chooses.  Both are pure functions of
\* their arguments: the call changes nothing the session goes on from.
Opening0 == \E i \in 1 .. par.n : Sig2(i, Msg0)
Signing0 == \E i \in 1 .. par.n : Sig3(i, Msg0)
Calling3 == \E i \in 1 .. par.n : Sig3Call(i)

Session0 == last3 = None /\ lastC = None /\ (Round1 \/ Opening0 \/ Signing0)

NextCalls == Session0 \/ Calling3 \/ CombineCall

SpecCalls == Init /\ [][NextCalls]_vars

\* ------------------------------------------------------- proofs on their own

\* The proof components, in the order of the Proof struct.
PointFields == {"xa", "xb", "xpk"}
ScalarFields == {"za", "zs", "zr", "zu"}

\* The last share has the public share g^s h^r v^u = identity.
ProofShares == {[s |-> 2, r |-> 5, u |-> 1], [s |-> 6, r |-> 0, u |-> 3],
                [s |-> 4, r |-> 1, u |-> 0]}
ProofNonces == Scalars
ProofBases == {<<3, 5>>, <<0, 4>>}
ProofHats == {<<3, 1, 4, 5>>, <<0, 6, 2, 2>>}

\* The encodings dec_scalar reads as the scalar that b encodes.
Reencodings(b) == {w \in Words : dec_scalar(w) = dec_scalar(b)}

\* sig_prove for the statement sig2 builds from (a, sk, rho, g0, g1), its
\* za in any encoding of the same scalar, then sig_verify on it.
NizkProve ==
    /\ nz = None
    /\ \E sk \in ProofShares, a \in ProofNonces, rho \in Rhos,
          gs \in ProofBases, hats \in ProofHats :
         LET pk_i == PAdd(PAdd(PMul(par.g, sk.s), PMul(par.h, sk.r)), PMul(par.v, sk.u))
             b_i == PAdd(PAdd(PMul(par.g, a), PMul(f0(rho), sk.r)), PMul(f1(rho), sk.u))
             a_i_point == PAdd(PAdd(PMul(par.g, a), PMul(gs[1], sk.r)), PMul(gs[2], sk.u))
             proof == sig_prove(par, pk_i, a_i_point, b_i, gs[1], gs[2], rho, a, sk, hats)
         IN  \E za \in Reencodings(proof.za) :
               nz' = Some([stage |-> "proved", pk |-> pk_i, a_point |-> a_i_point,
                           b_point |-> b_i, g0 |-> gs[1], g1 |-> gs[2], rho |-> rho,
                           proof |-> [proof EXCEPT !.za = za],
                           accepted |-> sig_verify(par, pk_i, a_i_point, b_i, gs[1],
                                                   gs[2], rho, [proof EXCEPT !.za = za]),
                           field |-> "", bit |-> 0,
                           forged |-> [proof EXCEPT !.za = za], ret |-> None])
    /\ UNCHANGED <<sessVars, callVars, tr, vc, td, fc>>

\* One bit of one component of the accepted proof flipped.
NizkTamper ==
    /\ nz # None
    /\ Unwrap(nz).stage = "proved"
    /\ Unwrap(nz).accepted
    /\ \E f \in PointFields \cup ScalarFields, k \in 0 .. (WBits - 1) :
         nz' = Some([Unwrap(nz) EXCEPT !.stage = "tampered", !.field = f, !.bit = k,
                                       !.forged[f] = FlipBit(Unwrap(nz).proof[f], k)])
    /\ UNCHANGED <<sessVars, callVars, tr, vc, td, fc>>

\* sig_verify on the changed proof, for the same statement.
NizkVerify ==
    /\ nz # None
    /\ Unwrap(nz).stage = "tampered"
    /\ nz' = Some([Unwrap(nz) EXCEPT
                     !.stage = "verified",
                     !.ret = Some(sig_verify(par, Unwrap(nz).pk, Unwrap(nz).a_point,
                                             Unwrap(nz).b_point, Unwrap(nz).g0,
                                             Unwrap(nz).g1, Unwrap(nz).rho,
                                             Unwrap(nz).forged))])
    /\ UNCHANGED <<sessVars, callVars, tr, vc, td, fc>>

NextNizk == NizkProve \/ NizkTamper \/ NizkVerify

SpecNizk == Init /\ [][NextNizk]_vars

\* ----------------------------------------------------------------- tracing

\* Sha256 over the concatenation of its updates (collision-free).
Sha256Digest(data) == Pack(0, data)

\* Bytewise ^ of two byte strings, each read as one number.
RECURSIVE Xor(_, _)
Xor(a, b) ==
    IF a = 0 /\ b = 0 THEN 0
    ELSE ((a + b) % 2) + 2 * Xor(a \div 2, b \div 2)

setup_admitter(sk) == [sk |-> sk, pk |-> PMul(Identity, sk)]

admitter_issue_token(ad, message) ==
    LET mh == Sha256Digest(message)
    IN  [msg_hash |-> mh, tau |-> SMul(dec_scalar(mh), ad.sk)]

\* trace_encrypt; r = the scalar it samples.
trace_encrypt(token, share, label, r) ==
    LET c1 == PMul(Identity, r)
        key == Sha256Digest(<<enc_point(c1)>> \o <<enc_scalar(token.tau)>> \o label)
    IN  [c1 |-> c1, c2 |-> Xor(key, share), msg_hash |-> token.msg_hash]

\* trace_decrypt without the msg_hash comparison.
trace_decrypt_unbound(token, tc) ==
    LET key == Sha256Digest(<<enc_point(tc.c1)>> \o <<enc_scalar(token.tau)>>)
    IN  Some(Xor(key, tc.c2))

trace_decrypt(token, tc) ==
    IF tc.msg_hash # token.msg_hash THEN None
    ELSE LET key == Sha256Digest(<<enc_point(tc.c1)>> \o <<enc_scalar(token.tau)>>)
         IN  Some(Xor(key, tc.c2))

TraceShares == Words
TraceLabels == {<<>>, <<7>>, <<7, 2>>}
TraceDraws == {3, 6}

TraceSetup ==
    /\ tr = None
    /\ \E sk \in Scalars, m \in Msgs :
         tr' = Some([stage |-> "issued", ad |-> setup_admitter(sk), message |-> m,
                     token |-> admitter_issue_token(setup_admitter(sk), m),
                     share |-> 0, label |-> <<>>, tc |-> None, out |-> None,
                     opened_for |-> m, r |-> 0])
    /\ UNCHANGED <<sessVars, callVars, nz, vc, td, fc>>

TraceEncrypt ==
    /\ tr # None
    /\ Unwrap(tr).stage = "issued"
    /\ \E share \in TraceShares, label \in TraceLabels, r \in TraceDraws :
         tr' = Some([Unwrap(tr) EXCEPT
                       !.stage = "encrypted", !.share = share, !.label = label,
                       !.r = r,
                       !.tc = Some(trace_encrypt(Unwrap(tr).token, share, label, r))])
    /\ UNCHANGED <<sessVars, callVars, nz, vc, td, fc>>

\* trace_decrypt with the token the ciphertext was made under.
TraceDecrypt ==
    /\ tr # None
    /\ Unwrap(tr).stage = "encrypted"
    /\ tr' = Some([Unwrap(tr) EXCEPT
                     !.stage = "decrypted",
                     !.out = Some(trace_decrypt(Unwrap(tr).token, Unwrap(Unwrap(tr).tc)))])
    /\ UNCHANGED <<sessVars, callVars, nz, vc, td, fc>>

\* trace_decrypt with the token the admitter issues for another message.
TraceDecryptOther ==
    /\ tr # None
    /\ Unwrap(tr).stage = "encrypted"
    /\ \E m \in Msgs \ {Unwrap(tr).message} :
         tr' = Some([Unwrap(tr) EXCEPT
                       !.stage = "decrypted_other", !.opened_for = m,
                       !.out = Some(trace_decrypt(admitter_issue_token(Unwrap(tr).ad, m),
                                                  Unwrap(Unwrap(tr).tc)))])
    /\ UNCHANGED <<sessVars, callVars, nz, vc, td, fc>>

NextTrace == TraceSetup \/ TraceEncrypt \/ TraceDecrypt \/ TraceDecryptOther

SpecTrace == Init /\ [][NextTrace]_vars

\* ------------------------------------------------------------ timed release

\* A call that returned v, and a call that panicked.
Returned(v) == [panic |-> FALSE, value |-> v]
Panicked == [panic |-> TRUE, value |-> None]

\* The values of a byte, and the length that stands for the 32 bytes of a
\* plaintext.
ByteBase == 4
PlainLen == 2

\* BigUint::from_bytes_be.
RECURSIVE FromBytesAcc(_, _)
FromBytesAcc(bytes, acc) ==
    IF bytes = <<>> THEN acc
    ELSE FromBytesAcc(Tail(bytes), acc * ByteBase + Head(bytes))

from_bytes_be(bytes) == FromBytesAcc(bytes, 0)

\* BigUint::to_bytes_be: the shortest big-endian bytes; one 0 byte for 0.
RECURSIVE to_bytes_be(_)
to_bytes_be(x) ==
    IF x < ByteBase THEN <<x>>
    ELSE Append(to_bytes_be(x \div ByteBase), x % ByteBase)

\* BigUint::modpow.
RECURSIVE modpow(_, _, _)
modpow(base, exp, m) ==
    IF exp = 0 THEN 1 % m
    ELSE LET half == modpow(base, exp \div 2, m)
             sq == (half * half) % m
         IN  IF exp % 2 = 1 THEN (sq * (base % m)) % m ELSE sq

RECURSIVE pow_2t_mod(_, _, _)
pow_2t_mod(x, t, n) ==
    IF t = 0 THEN x ELSE pow_2t_mod((x * x) % n, t - 1, n)

\* egcd on non-negative a, b: <<g, x, y>> with a*x + b*y = g.
RECURSIVE egcd(_, _)
egcd(a, b) ==
    IF b = 0 THEN <<a, 1, 0>>
    ELSE LET r == egcd(b, a % b)
         IN  <<r[1], r[3], r[2] - (a \div b) * r[3]>>

modinv(a, m) ==
    LET r == egcd(a, m)
    IN  IF r[1] # 1 THEN None ELSE Some(r[2] % m)

\* derive_h without the squarings.
derive_h_unsquared(n, g, t) == g % n

derive_h(n, g, t) == pow_2t_mod(g % n, t, n)

\* (x - 1) / n on BigUint: the subtraction panics when x = 0.
paillier_L(x, n) == IF x = 0 THEN Panicked ELSE Returned((x - 1) \div n)

\* timed_encrypt; r = what sample_r returns.
timed_encrypt(pp, plaintext, aad, r) ==
    LET s == from_bytes_be(plaintext)
        n == pp.n
        n2 == n * n
        u == modpow(pp.g, r, n)
        term1 == modpow(pp.h % n2, r * n, n2)
        term2 == modpow(n + 1, s, n2)
        v == (term1 * term2) % n2
    IN  IF ~(s < n) THEN Panicked
        ELSE Returned([u |-> to_bytes_be(u), v |-> to_bytes_be(v), aad |-> aad])

\* The end of timed_decrypt: s to bytes, None when longer than the
\* plaintext length, left-padded with zeros when shorter.
PadPlain(out) ==
    IF Len(out) > PlainLen THEN None
    ELSE Some([k \in 1 .. (PlainLen - Len(out)) |-> 0] \o out)

timed_decrypt(pp, ct, aad_expected) ==
    IF ct.aad # aad_expected THEN Returned(None)
    ELSE LET n == pp.n
             n2 == n * n
             u == from_bytes_be(ct.u)
             v == from_bytes_be(ct.v) % n2
             w == pow_2t_mod(u % n, pp.t, n)
             wN == modpow(w % n2, n, n2)
             inv_wN == modinv(wN, n2)
         IN  IF inv_wN = None THEN Returned(None)
             ELSE LET x == (v * Unwrap(inv_wN)) % n2
                      l == paillier_L(x, n)
                  IN  IF l.panic THEN Panicked
                      ELSE Returned(PadPlain(to_bytes_be(l.value % n)))

\* The prime pairs, bases and squaring counts TimedParams are built from.
TimedPrimes == {<<3, 5>>, <<3, 7>>, <<5, 7>>}
TimedBases == {2, 3, 4}
MaxSquarings == 2
Plaintexts == [1 .. PlainLen -> 0 .. (ByteBase - 1)]
Aads == {<<>>, <<1>>}
\* Values sample_r can return for modulus n: the ends of [1, n^2 - 1] and
\* two values between.
TimedDraws(n) == {1, n - 1, n + 2, n * n - 1}

RECURSIVE Gcd(_, _)
Gcd(a, b) == IF b = 0 THEN a ELSE Gcd(b, a % b)

TimedSetup ==
    /\ td = None
    /\ \E pq \in TimedPrimes, g \in TimedBases, t \in 1 .. MaxSquarings :
         LET n == pq[1] * pq[2]
         IN  td' = Some([stage |-> "params",
                         pp |-> [n |-> n, g |-> g, h |-> derive_h(n, g, t), t |-> t],
                         plaintext |-> <<>>, r |-> 0, enc |-> Panicked,
                         ct |-> [u |-> <<>>, v |-> <<>>, aad |-> <<>>],
                         tampered |-> FALSE, aad_expected |-> <<>>,
                         out |-> Returned(None)])
    /\ UNCHANGED <<sessVars, callVars, nz, tr, vc, fc>>

TimedEncrypt ==
    /\ td # None
    /\ Unwrap(td).stage = "params"
    /\ \E plaintext \in Plaintexts, aad \in Aads, r \in TimedDraws(Unwrap(td).pp.n) :
         LET enc == timed_encrypt(Unwrap(td).pp, plaintext, aad, r)
         IN  td' = Some([Unwrap(td) EXCEPT
                           !.stage = "encrypted", !.plaintext = plaintext, !.r = r,
                           !.enc = enc,
                           !.ct = IF enc.panic THEN @ ELSE enc.value])
    /\ UNCHANGED <<sessVars, callVars, nz, tr, vc, fc>>

\* The ciphertext with u or v replaced: v a multiple of N^2, u a multiple
\* of a prime factor of N, v one more.
TamperedCiphertexts(pp, ct) ==
    {[ct EXCEPT !.v = <<>>],
     [ct EXCEPT !.v = to_bytes_be(pp.n * pp.n)],
     [ct EXCEPT !.v = to_bytes_be((from_bytes_be(ct.v) + 1) % (pp.n * pp.n))],
     [ct EXCEPT !.u = to_bytes_be(3 * from_bytes_be(ct.u))],
     [ct EXCEPT !.u = <<>>]}

TimedTamper ==
    /\ td # None
    /\ Unwrap(td).stage = "encrypted"
    /\ ~Unwrap(td).enc.panic
    /\ ~Unwrap(td).tampered
    /\ \E ct \in TamperedCiphertexts(Unwrap(td).pp, Unwrap(td).ct) :
         td' = Some([Unwrap(td) EXCEPT !.ct = ct, !.tampered = TRUE])
    /\ UNCHANGED <<sessVars, callVars, nz, tr, vc, fc>>

TimedDecrypt ==
    /\ td # None
    /\ Unwrap(td).stage = "encrypted"
    /\ ~Unwrap(td).enc.panic
    /\ \E aad \in Aads :
         td' = Some([Unwrap(td) EXCEPT
                       !.stage = "decrypted", !.aad_expected = aad,
                       !.out = timed_decrypt(Unwrap(td).pp, Unwrap(td).ct, aad)])
    /\ UNCHANGED <<sessVars, callVars, nz, tr, vc, fc>>

NextTimed == TimedSetup \/ TimedEncrypt \/ TimedTamper \/ TimedDecrypt

SpecTimed == Init /\ [][NextTimed]_vars

\* --------------------------------------------------------- commitment layer

TagVC == 11

\* derive_h_from_g: the digest of tag || g, widened, mapped onto the group.
derive_h_from_g(g) == uhash_to_point(hash_64(TagVC, <<enc_point(g)>>))

\* commit_z; r_i = the scalar it samples.
commit_z(i, g, h, z_i, r_i) ==
    [msg |-> [i |-> i, c_i |-> enc_point(PAdd(PMul(g, z_i), PMul(h, r_i)))],
     op |-> [i |-> i, r_i |-> r_i]]

\* aggregate_commitments: decompress().expect(..) panics on a bad encoding.
RECURSIVE SumCommitments(_, _)
SumCommitments(coms, c_sum) ==
    IF coms = <<>> THEN Returned(enc_point(c_sum))
    ELSE LET cp == dec_point(Head(coms).c_i)
         IN  IF cp = None THEN Panicked
             ELSE SumCommitments(Tail(coms), PAdd(c_sum, Unwrap(cp)))

aggregate_commitments(coms) == SumCommitments(coms, Identity)

RECURSIVE SumOpenings(_, _)
SumOpenings(ops, r_sum) ==
    IF ops = <<>> THEN r_sum
    ELSE SumOpenings(Tail(ops), SAdd(r_sum, Head(ops).r_i))

\* aggregate_openings that keeps only the last opening.
aggregate_openings_last(ops) ==
    enc_scalar(IF ops = <<>> THEN 0 ELSE ops[Len(ops)].r_i)

aggregate_openings(ops) == enc_scalar(SumOpenings(ops, 0))

verify_aggregate(g, h, c_agg_bytes, z, r_agg_bytes) ==
    LET c_agg == dec_point(c_agg_bytes)
        r_agg == dec_scalar(r_agg_bytes)
    IN  IF c_agg = None THEN Panicked
        ELSE Returned(Unwrap(c_agg) = PAdd(PMul(g, z), PMul(h, r_agg)))

\* How many shares are committed to, and the randomness commit_z draws.
MaxShares == 2
CommitDraws == {0, 3, 6}

VcCommit ==
    /\ \/ vc = None
       \/ vc # None /\ Unwrap(vc).stage = "committing" /\ Len(Unwrap(vc).coms) < MaxShares
    /\ \E z \in Scalars, r \in CommitDraws :
         LET old == IF vc = None
                    THEN [stage |-> "committing", zs |-> <<>>, coms |-> <<>>,
                          ops |-> <<>>, tampered |-> FALSE,
                          c_agg |-> Returned(enc_point(Identity)), r_agg |-> 0,
                          ok |-> Returned(FALSE)]
                    ELSE Unwrap(vc)
             c == commit_z(Len(old.coms) + 1, par.g, derive_h_from_g(par.g), z, r)
         IN  vc' = Some([old EXCEPT !.zs = Append(@, z), !.coms = Append(@, c.msg),
                                    !.ops = Append(@, c.op)])
    /\ UNCHANGED <<sessVars, callVars, nz, tr, td, fc>>

\* One bit of a commitment on its way to the combiner, or of the aggregate
\* on its way to a verifier, flipped.
VcTamper ==
    /\ vc # None
    /\ ~Unwrap(vc).tampered
    /\ \/ /\ Unwrap(vc).stage = "committing"
          /\ \E k \in DOMAIN Unwrap(vc).coms, b \in 0 .. 1 :
               vc' = Some([Unwrap(vc) EXCEPT !.tampered = TRUE,
                                             !.coms[k].c_i = FlipBit(@, b)])
       \/ /\ Unwrap(vc).stage = "aggregated"
          /\ ~Unwrap(vc).c_agg.panic
          /\ \E b \in 0 .. 1 :
               vc' = Some([Unwrap(vc) EXCEPT !.tampered = TRUE,
                                             !.c_agg.value = FlipBit(@, b)])
    /\ UNCHANGED <<sessVars, callVars, nz, tr, td, fc>>

VcAggregate ==
    /\ vc # None
    /\ Unwrap(vc).stage = "committing"
    /\ vc' = Some([Unwrap(vc) EXCEPT
                     !.stage = "aggregated",
                     !.c_agg = aggregate_commitments(Unwrap(vc).coms),
                     !.r_agg = aggregate_openings(Unwrap(vc).ops)])
    /\ UNCHANGED <<sessVars, callVars, nz, tr, td, fc>>

\* verify_aggregate against z = the sum of the shares, as combine forms it.
VcVerify ==
    /\ vc # None
    /\ Unwrap(vc).stage = "aggregated"
    /\ ~Unwrap(vc).c_agg.panic
    /\ vc' = Some([Unwrap(vc) EXCEPT
                     !.stage = "verified",
                     !.ok = verify_aggregate(par.g, derive_h_from_g(par.g),
                                             Unwrap(vc).c_agg.value,
                                             SumOpenings([k \in DOMAIN Unwrap(vc).zs |->
                                                            [r_i |-> Unwrap(vc).zs[k]]], 0),
                                             Unwrap(vc).r_agg)])
    /\ UNCHANGED <<sessVars, callVars, nz, tr, td, fc>>

NextVc == VcCommit \/ VcTamper \/ VcAggregate \/ VcVerify

SpecVc == Init /\ [][NextVc]_vars

\* ------------------------------------------------------- helper functions

\* (id, mu) pairs as they arrive from the signers; two of them have id 1.
FcPairs == {<<1, 5>>, <<1, 9>>, <<2, 5>>, <<3, 9>>}

\* Signing sets as a caller may pass them: ids in any order, repeats allowed.
FcSigningSets == UNION {[1 .. k -> 1 .. MaxN] : k \in 1 .. MaxN}

\* Messages: one word, or one word followed by the bytes of an (id, mu).
FcMessages == Msgs \cup {m \o MuBytes(<<c>>) : m \in Msgs, c \in FcPairs}

\* lagrange_coeff(i, ss) for any i and any ss.
LagrangeCall ==
    /\ fc = None
    /\ \E i \in 1 .. MaxN, sv \in FcSigningSets :
         fc' = Some([fn |-> "lagrange_coeff", i |-> i, ss |-> sv,
                     out |-> Returned(lagrange_coeff(i, sv))])
    /\ UNCHANGED <<sessVars, callVars, nz, tr, vc, td>>

\* G0 and G1 as sig2 and sig3_with_pk compute them, for two orderings of
\* one set of commitments.
OrderingCall ==
    /\ fc = None
    /\ \E m \in Msgs, S \in SUBSET FcPairs :
         \E p \in Perms(S), q \in Perms(S) :
            fc' = Some([fn |-> "g0g1", message |-> m, first |-> p, second |-> q,
                        sorted1 |-> normalize_mu_vec(p),
                        sorted2 |-> normalize_mu_vec(q),
                        points1 |-> <<g0(m, normalize_mu_vec(p)), g1(m, normalize_mu_vec(p))>>,
                        points2 |-> <<g0(m, normalize_mu_vec(q)), g1(m, normalize_mu_vec(q))>>])
    /\ UNCHANGED <<sessVars, callVars, nz, tr, vc, td>>

\* The buffers g0 and g1 hash for two signing contexts, each a message and
\* a commitment vector sorted by id.
ContextCall ==
    /\ fc = None
    /\ \E m1 \in FcMessages, m2 \in FcMessages :
         \E S1 \in SUBSET FcPairs, S2 \in SUBSET FcPairs :
            /\ Cardinality(S1) <= 1 /\ Cardinality(S2) <= 2
            /\ \E p \in Perms(S1), q \in Perms(S2) :
                 fc' = Some([fn |-> "buffer", m1 |-> m1, mu1 |-> normalize_mu_vec(p),
                             m2 |-> m2, mu2 |-> normalize_mu_vec(q),
                             buf1 |-> m1 \o MuBytes(normalize_mu_vec(p)),
                             buf2 |-> m2 \o MuBytes(normalize_mu_vec(q)),
                             points1 |-> <<g0(m1, normalize_mu_vec(p)),
                                           g1(m1, normalize_mu_vec(p))>>,
                             points2 |-> <<g0(m2, normalize_mu_vec(q)),
                                           g1(m2, normalize_mu_vec(q))>>])
    /\ UNCHANGED <<sessVars, callVars, nz, tr, vc, td>>

NextFn == LagrangeCall \/ OrderingCall \/ ContextCall

SpecFn == Init /\ [][NextFn]_vars

\* ------------------------------------------------------------------ claims

\* C1: when every signer of a signing set of t+1 distinct ids runs sig1,
\* sig2 on the full commitment vector and sig3_with_pk on all openings,
\* every sig3_with_pk call returns a partial signature, combine returns a
\* signature, and verify accepts it; for every n, t, key set, message and
\* signing set.
C1_HonestRunVerifies ==
    \A m \in Msgs :
        /\ \A i \in Range(ss) : issued[i][m] # None => Unwrap(issued[i][m]) # None
        /\ sigma[m] # None => Unwrap(sigma[m]) # None
        /\ verified[m] # None => Unwrap(verified[m]) = TRUE

C1_Witness ==
    /\ par.t = 2
    /\ \A m \in Msgs : verified[m] = Some(TRUE)

\* C2: the nonce a_i of one sig1 call contributes to at most one partial
\* signature: once sig3_with_pk has returned with a SignerState, no later
\* call yields another partial signature from the same a_i.
C2_NonceSignsOnce ==
    \A i \in 1 .. par.n :
        Cardinality({m \in Msgs : issued[i][m] # None /\ Unwrap(issued[i][m]) # None}) <= 1

\* C3: the OpeningMessage sig2 returns carries no nonce: its a_i field is
\* zeroed, whatever st.a_i is.
C3_OpeningHidesNonce ==
    \A m \in Msgs : \A om \in opens[m] : om.a_i = enc_scalar(0)

\* The (id, rho, B-encoding) a commitment mu commits to: hcom is
\* collision-free, so these are the only values that hash to mu.
Committed(mu) ==
    LET base == 2 ^ WBits + 1
        q1 == (mu - 1) \div base
        q2 == (q1 - 1) \div base
    IN  [i       |-> ((q2 - 1) % base),
         rho     |-> ((q1 - 1) % base),
         b_point |-> ((mu - 1) % base)]

\* Some opening of the list has no entry under its id in the commitment
\* vector, or a rho or a B other than the ones that entry commits to.
Uncommitted(c) ==
    \E k \in DOMAIN c.openings :
        LET om == c.openings[k]
            mu == FindById(normalize_mu_vec(c.commitments), om.i)
        IN  \/ mu = None
            \/ Committed(Unwrap(mu)).rho # om.rho_i
            \/ Committed(Unwrap(mu)).b_point # om.b_point

\* C4: sig3_with_pk returns no partial signature when an opening of its
\* list differs in rho or B from what the commitment recorded for its id
\* commits to, or has no commitment recorded, whatever the other inputs.
C4_CommitmentBinding ==
    last3 # None => (Uncommitted(Unwrap(last3)) => Unwrap(last3).ret = None)

C4_Witness ==
    /\ last3 # None
    /\ Unwrap(last3).ret = None
    /\ Unwrap(last3).commitments = Commitments0
    /\ Unwrap(last3).ss # ss
    /\ \E k \in DOMAIN Unwrap(last3).openings :
          LET om == Unwrap(last3).openings[k]
              mu == FindById(Unwrap(last3).commitments, om.i)
          IN  /\ mu # None
              /\ Committed(Unwrap(mu)).i = om.i
              /\ Committed(Unwrap(mu)).rho = om.rho_i
              /\ Committed(Unwrap(mu)).b_point # om.b_point
              /\ dec_point(om.b_point) # None

\* The id of the opening at which the call's verification loop stopped; 0
\* when no opening was rejected.
Culprit(c) ==
    LET mu_vec == normalize_mu_vec(c.commitments)
        k == FirstRejected(par, mu_vec, PkMap, g0(c.message, mu_vec),
                           g1(c.message, mu_vec), c.openings, 1)
    IN  IF k = 0 THEN 0 ELSE c.openings[k].i

\* The signer id carried by a value sig3_with_pk returns: the id field of
\* the partial signature; None carries no id (0).
Blamed(ret) == IF ret = None THEN 0 ELSE Unwrap(ret).i

\* C5: when sig3_with_pk aborts because of the opening of signer j, the
\* value it returns identifies j.
C5_AbortNamesSigner ==
    last3 # None =>
        (Culprit(Unwrap(last3)) # 0 => Blamed(Unwrap(last3).ret) = Culprit(Unwrap(last3)))

\* C6: sig3_with_pk returns a partial signature only if the openings list
\* holds an opening for every id of SS.
C6_AllOpeningsCollected ==
    last3 # None =>
        ((\E j \in Range(Unwrap(last3).ss) :
             \A k \in DOMAIN Unwrap(last3).openings : Unwrap(last3).openings[k].i # j)
         => Unwrap(last3).ret = None)

\* C7: sig3_with_pk returns no partial signature when |SS| < t + 1.
C7_SigningSetSize ==
    last3 # None => (Len(Unwrap(last3).ss) < par.t + 1 => Unwrap(last3).ret = None)

HasDuplicateId(openings) ==
    \E k, l \in DOMAIN openings : k # l /\ openings[k].i = openings[l].i

\* C8: an openings list with two openings of one id makes sig3_with_pk
\* and combine return an error, never a partial signature or a signature.
C8_OneOpeningPerSigner ==
    /\ last3 # None =>
         (HasDuplicateId(Unwrap(last3).openings) => Unwrap(last3).ret = None)
    /\ lastC # None =>
         (HasDuplicateId(Unwrap(lastC).openings) => Unwrap(lastC).ret = None)

\* The challenges e for which the three equations of sig_verify hold on
\* the changed proof.
AcceptingChallenges(q) ==
    {e \in Scalars : sig_check(par, q.pk, q.a_point, q.b_point, q.g0, q.g1, q.rho,
                               q.forged, e)}

\* The challenge HFS gave for the unchanged proof.
Challenge0(q) ==
    hfs(Unwrap(dec_point(q.proof.xa)), Unwrap(dec_point(q.proof.xb)),
        Unwrap(dec_point(q.proof.xpk)), q.a_point, q.b_point, q.pk, q.g0, q.g1, q.rho)

\* The point of the statement that stands in the equation of announcement f.
StatementPoint(q, f) ==
    IF f = "xa" THEN q.a_point ELSE IF f = "xb" THEN q.b_point ELSE q.pk

\* C9: after one bit of one component of an accepted proof is flipped,
\* sig_verify returns false for the same statement: always when the
\* component is a response scalar or no longer decodes; and when a changed
\* announcement still decodes, HFS is queried on a new input and the
\* equations hold for at most one value of its answer, never for the
\* challenge of the unchanged proof; it returns true only for a statement
\* whose two other points are both the identity.
C9_BitFlipRejected ==
    (nz # None /\ Unwrap(nz).stage = "verified") =>
        LET q == Unwrap(nz)
        IN  /\ q.field \in ScalarFields => q.ret = Some(FALSE)
            /\ (q.field \in PointFields /\ dec_point(q.forged[q.field]) = None)
                 => q.ret = Some(FALSE)
            /\ (q.field \in PointFields /\ dec_point(q.forged[q.field]) # None)
                 => /\ Cardinality(AcceptingChallenges(q)) <= 1
                    /\ Challenge0(q) \notin AcceptingChallenges(q)
                    /\ q.ret = Some(TRUE) =>
                          \A f \in PointFields \ {q.field} :
                              StatementPoint(q, f) = Identity

C9_Witness ==
    /\ nz # None
    /\ Unwrap(nz).stage = "verified"
    /\ Unwrap(nz).field = "zu"
    /\ Unwrap(nz).bit = WBits - 1
    /\ Unwrap(nz).proof.za >= L
    /\ Unwrap(nz).ret = Some(FALSE)

\* C10: trace_decrypt on what trace_encrypt made under the same token
\* returns the share, for every label.
C10_TraceRoundTrip ==
    (tr # None /\ Unwrap(tr).stage = "decrypted") =>
        Unwrap(tr).out = Some(Some(Unwrap(tr).share))

\* C11: trace_decrypt with the token issued for m, on a ciphertext that
\* trace_encrypt made under the token issued for m' with another SHA-256
\* hash, returns None.
C11_TokenMessageBound ==
    (tr # None /\ Unwrap(tr).stage = "decrypted_other"
       /\ Sha256Digest(Unwrap(tr).opened_for) # Sha256Digest(Unwrap(tr).message))
    => Unwrap(tr).out = Some(None)

C11_Witness ==
    /\ tr # None
    /\ Unwrap(tr).stage = "decrypted_other"
    /\ Unwrap(tr).opened_for # Unwrap(tr).message
    /\ Unwrap(tr).label # <<>>
    /\ Unwrap(tr).ad.sk # 0
    /\ Unwrap(tr).out = Some(None)

\* C18: the tracing channel works over the basepoint: setup_admitter
\* returns pk = basepoint * sk and trace_encrypt returns C1 = basepoint * r,
\* so neither is the identity when sk, r are not 0.
C18_TracingBasepoint ==
    tr # None =>
        /\ Unwrap(tr).ad.pk = PMul(Basepoint, Unwrap(tr).ad.sk)
        /\ Unwrap(tr).ad.sk # 0 => Unwrap(tr).ad.pk # Identity
        /\ Unwrap(tr).tc # None =>
             /\ Unwrap(Unwrap(tr).tc).c1 = PMul(Basepoint, Unwrap(tr).r)
             /\ Unwrap(tr).r # 0 => Unwrap(Unwrap(tr).tc).c1 # Identity

\* C12: with N = p*q, gcd(g, N) = 1 and h = derive_h(N, g, T), for every
\* aad, every r in [1, N^2 - 1] and every plaintext of the full length with
\* value < N, timed_decrypt on what timed_encrypt returned, with the same
\* aad, returns Some of the same bytes.
C12_TimedRoundTrip ==
    (td # None /\ Unwrap(td).stage = "decrypted" /\ ~Unwrap(td).tampered
       /\ Gcd(Unwrap(td).pp.g, Unwrap(td).pp.n) = 1
       /\ Unwrap(td).aad_expected = Unwrap(td).ct.aad)
    => Unwrap(td).out = Returned(Some(Unwrap(td).plaintext))

C12_Witness ==
    /\ td # None
    /\ Unwrap(td).stage = "decrypted"
    /\ ~Unwrap(td).tampered
    /\ Unwrap(td).pp.n = 35
    /\ Unwrap(td).pp.g = 3
    /\ Unwrap(td).pp.t = MaxSquarings
    /\ Unwrap(td).r = 35 * 35 - 1
    /\ Unwrap(td).aad_expected = <<1>>
    /\ Unwrap(td).plaintext = <<3, 2>>
    /\ Unwrap(td).out = Returned(Some(<<3, 2>>))

\* C19: timed_decrypt returns None or Some of exactly the plaintext length
\* for every ciphertext, tampered ones included, and never panics.
C19_TimedDecryptTotal ==
    (td # None /\ Unwrap(td).stage = "decrypted") =>
        /\ ~Unwrap(td).out.panic
        /\ Unwrap(td).out.value # None => Len(Unwrap(Unwrap(td).out.value)) = PlainLen

\* C13: for every list of scalars z_i and every commitment randomness,
\* verify_aggregate on the aggregate of the commit_z commitments, the sum
\* of the z_i and the aggregate of the openings returns true.
C13_AggregateVerifies ==
    (vc # None /\ Unwrap(vc).stage = "verified" /\ ~Unwrap(vc).tampered)
    => Unwrap(vc).ok = Returned(TRUE)

C13_Witness ==
    /\ vc # None
    /\ Unwrap(vc).stage = "verified"
    /\ ~Unwrap(vc).tampered
    /\ Len(Unwrap(vc).coms) = MaxShares
    /\ Unwrap(vc).ops[1].r_i # 0
    /\ Unwrap(vc).zs[1] # Unwrap(vc).zs[MaxShares]
    /\ Unwrap(vc).ok = Returned(TRUE)

\* C15: an encoding that is no valid point makes the operation that
\* decodes it return an error or false; it never panics.
C15_DecodeNeverPanics ==
    vc # None => ~Unwrap(vc).c_agg.panic /\ ~Unwrap(vc).ok.panic

\* C14: lagrange_coeff(i, SS) fails, and returns no coefficient, when SS
\* holds an id twice.
C14_LagrangeRejectsDuplicates ==
    (fc # None /\ Unwrap(fc).fn = "lagrange_coeff"
       /\ \E k, l \in DOMAIN Unwrap(fc).ss : k # l /\ Unwrap(fc).ss[k] = Unwrap(fc).ss[l])
    => Unwrap(fc).out.panic

\* C16: a scalar encoding whose value is >= the group order is never
\* accepted by sig_verify as the encoding of its residue.
C16_NonCanonicalScalarRejected ==
    (nz # None /\ \E f \in ScalarFields : Unwrap(nz).proof[f] >= L)
    => ~Unwrap(nz).accepted

\* C17: any two orderings of one set of (id, mu) pairs are normalised to
\* the same sequence and give the same G0 and G1.
C17_OrderIndependent ==
    (fc # None /\ Unwrap(fc).fn = "g0g1")
    => /\ Unwrap(fc).sorted1 = Unwrap(fc).sorted2
       /\ Unwrap(fc).points1 = Unwrap(fc).points2

\* C20: two different (message, sorted commitment vector) contexts give
\* different buffers to G0 and G1.
C20_BufferInjective ==
    (fc # None /\ Unwrap(fc).fn = "buffer"
       /\ <<Unwrap(fc).m1, Unwrap(fc).mu1>> # <<Unwrap(fc).m2, Unwrap(fc).mu2>>)
    => Unwrap(fc).buf1 # Unwrap(fc).buf2

====
